---- MODULE Spec2Model ----
(***************************************************************************)
(* Byte-level model of Magnum's Trade::DataChunk / Trade::DataChunkHeader  *)
(* (Data.h, Data.cpp): the header layout for the four bitness/endianness   *)
(* builds, isDataChunk(), isDataChunkHeader(), deserialize(), from() and   *)
(* serializeHeaderInto().                                                  *)
(*                                                                         *)
(* Memory is modelled as sequences of bytes (0..255), 1-based: the byte at *)
(* C++ offset k is element k+1.  Word-sized integers are kept as their     *)
(* digits in base 256, most significant first, so that the 32- and 64-bit  *)
(* size field keeps its full width.                                        *)
(***************************************************************************)
EXTENDS Integers, Sequences, FiniteSets, TLC

\* ------------------------------------------------------------------ bounds
\* Largest payload (bytes after the header) of an allocated buffer.
MaxPayload == 1
\* Number of caller edits (byte overwrite, dropping the last byte, rewriting
\* the header of a deserialized chunk in place) of a buffer.
MaxEdits == 1

\* ------------------------------------------------------------ build variants
\* sizeof(std::size_t) in bits and CORRADE_TARGET_BIG_ENDIAN.
Builds == [bits : {32, 64}, big : BOOLEAN]

WordSize(b) == b.bits \div 8

\* sizeof(DataChunkHeader) == 16 + sizeof(std::size_t)
HeaderSize(b) == 16 + WordSize(b)

\* Utility::Endianness::fourCC(a, b, c, d): a 32-bit value whose bytes in
\* memory are a, b, c, d on either byte order.  Kept as its bytes in memory.
fourCC(a, b, c, d) == <<a, b, c, d>>

LittleEndian32 == fourCC(66, 108, 79, 66)
LittleEndian64 == fourCC(66, 76, 79, 66)
BigEndian32 == fourCC(66, 79, 108, 66)
BigEndian64 == fourCC(66, 79, 76, 66)

\* Variant of Current that tells the byte orders apart but not the word sizes.
Current_AnyWordSize(b) ==
    IF ~b.big THEN LittleEndian32 ELSE BigEndian32

Current(b) ==
    IF ~b.big
    THEN (IF WordSize(b) = 8 THEN LittleEndian64 ELSE LittleEndian32)
    ELSE (IF WordSize(b) = 8 THEN BigEndian64 ELSE BigEndian32)

\* ------------------------------------------------------------ integers <-> bytes
Zeros(n) == [i \in 1..n |-> 0]

Reverse(s) == [i \in 1..Len(s) |-> s[Len(s) + 1 - i]]

\* The w base-256 digits of n, most significant first.  Lengths in the model
\* are below 2^24, so the digits above the third are zero.
Digits(n, w) ==
    [i \in 1..w |->
        IF w - i = 0 THEN n % 256
        ELSE IF w - i = 1 THEN (n \div 256) % 256
        ELSE IF w - i = 2 THEN (n \div 65536) % 256
        ELSE 0]

\* Object representation of an unsigned integer of w bytes on build b.
Native(b, n, w) == IF b.big THEN Digits(n, w) ELSE Reverse(Digits(n, w))

\* Unsigned comparison x > y of two numbers given by their digits.
DigitsGreater(x, y) ==
    \E i \in 1..Len(x) :
        /\ x[i] > y[i]
        /\ \A j \in 1..(i - 1) : x[j] = y[j]

\* mem with the bytes at offset off.. replaced by bytes, which lie within mem.
Overwrite(mem, off, bytes) ==
    SubSeq(mem, 1, off) \o bytes
        \o SubSeq(mem, off + Len(bytes) + 1, Len(mem))

\* ------------------------------------------------------------ header fields
\* struct DataChunkHeader: version@0, eolUnix@1, eolDos@2, signature@4,
\* zero@8, extra@10, type@12, size@16.
HeaderVersion(mem) == mem[1]
HeaderSignature(mem) == SubSeq(mem, 5, 8)
HeaderZero(mem) == SubSeq(mem, 9, 10)
HeaderExtra(mem) == SubSeq(mem, 11, 12)
HeaderType(mem) == SubSeq(mem, 13, 16)

\* header.size read in native width and byte order, as digits (most
\* significant first).
HeaderSizeField(b, mem) ==
    LET raw == SubSeq(mem, 17, 16 + WordSize(b))
    IN  IF b.big THEN raw ELSE Reverse(raw)

\* constexpr DataChunkHeader DataChunkHeaderPrefix{128, {'\x0a'},
\*     {'\x0d', '\x0a'}, DataChunkSignature::Current, 0, 0, DataChunkType{}, 0}
DataChunkHeaderPrefix(b) ==
    <<128, 10, 13, 10>> \o Current(b) \o <<0, 0>> \o <<0, 0>>
        \o fourCC(0, 0, 0, 0) \o Zeros(WordSize(b))

\* std::memcmp(x, y, n) == 0
MemEqual(x, y, n) == \A i \in 1..n : x[i] = y[i]

\* Variant of the constructor that stamps the serialized prefix into the live
\* chunk instead of zeros.
DataChunk_Stamped(b, type) ==
    Overwrite(DataChunkHeaderPrefix(b), 12, type)

\* DataChunk(DataChunkType type): _header{0, {0}, {0, 0},
\*     DataChunkSignature{}, 0, 0, type, 0}
DataChunk(b, type) ==
    <<0, 0, 0, 0>> \o fourCC(0, 0, 0, 0) \o <<0, 0>> \o <<0, 0>>
        \o type \o Zeros(WordSize(b))

\* DataChunk::dataChunkType(): _header.type
dataChunkType(self) == HeaderType(self)

\* Variant of serializedSize() that answers the size of the 64-bit header on
\* every build.
serializedSize_Header64(b) == 16 + 8

\* DataChunk::serializedSize()
serializedSize(b) == HeaderSize(b)

\* ------------------------------------------------------------ debug output
\* std::isprint(c) in the "C" locale
isprint(c) == c >= 32 /\ c <= 126

\* Containers::enumCastUnderlyingType(value): the UnsignedInt held by the 4
\* bytes of a DataChunkType or DataChunkSignature, as digits in base 256,
\* most significant first.
enumCastUnderlyingType(b, tag) == IF b.big THEN tag ELSE Reverse(tag)

\* printFourCC(debug, value, name): what is printed between name and ")",
\* one entry per loop iteration.  Iteration i prints value & 255 and shifts
\* value right by 8: a printable byte as a quoted character, any other as
\* the hexadecimal number reinterpret_cast<void*>(c) prints.
printFourCC(value) ==
    [i \in 1..4 |->
        LET c == value[5 - i]
        IN  IF isprint(c) THEN <<"char", c>> ELSE <<"hex", c>>]

\* ------------------------------------------------------------ results
NoBytes == <<>>

\* Pointers into the caller's buffer are offsets from data.data(); nullptr.
Null == 0 - 1

\* Variant of the successful return that points at the signature instead of
\* the start of the buffer.
Success_AtSignature ==
    [ok |-> TRUE, err |-> "none", expected |-> NoBytes, actual |-> NoBytes,
     ptr |-> 4, asserted |-> FALSE]

\* return reinterpret_cast<const DataChunk*>(data.data())
Success ==
    [ok |-> TRUE, err |-> "none", expected |-> NoBytes, actual |-> NoBytes,
     ptr |-> 0, asserted |-> FALSE]

\* Error{} << ...; return nullptr
Failure(kind, expected, actual) ==
    [ok |-> FALSE, err |-> kind, expected |-> expected, actual |-> actual,
     ptr |-> Null, asserted |-> FALSE]

\* a returned bool
Answer(v) ==
    [ok |-> v, err |-> "none", expected |-> NoBytes, actual |-> NoBytes,
     ptr |-> Null, asserted |-> FALSE]

\* ------------------------------------------------------------ read path
\* Variant of isDataChunk() that compares 12 bytes (extra included), as
\* deserialize() does.
isDataChunk_Prefix12(b, data) ==
    /\ Len(data) >= HeaderSize(b)
    /\ MemEqual(data, DataChunkHeaderPrefix(b), 12)
    /\ ~DigitsGreater(HeaderSizeField(b, data), Digits(Len(data), WordSize(b)))

\* bool DataChunk::isDataChunk(Containers::ArrayView<const void> data)
\* (every view of the model has a non-null data pointer)
isDataChunk(b, data) ==
    /\ Len(data) >= HeaderSize(b)
    /\ MemEqual(data, DataChunkHeaderPrefix(b), 10)
    /\ ~DigitsGreater(HeaderSizeField(b, data), Digits(Len(data), WordSize(b)))

\* Variant of isDataChunkHeader() that compares the extra field as well.
isDataChunkHeader_Prefix12(b, self) ==
    MemEqual(self, DataChunkHeaderPrefix(b), 12)

\* bool DataChunk::isDataChunkHeader() const, on the header bytes at self
isDataChunkHeader(b, self) == MemEqual(self, DataChunkHeaderPrefix(b), 10)

\* Variant of deserialize() with the signature check ahead of the version
\* check.
deserialize_SignatureFirst(b, data) ==
    IF Len(data) < HeaderSize(b)
    THEN Failure("TooShortForHeader",
                 Digits(HeaderSize(b), WordSize(b)),
                 Digits(Len(data), WordSize(b)))
    ELSE IF HeaderSignature(data) # Current(b)
    THEN Failure("SignatureMismatch", Current(b), HeaderSignature(data))
    ELSE IF HeaderVersion(data) # HeaderVersion(DataChunkHeaderPrefix(b))
    THEN Failure("VersionMismatch",
                 <<HeaderVersion(DataChunkHeaderPrefix(b))>>,
                 <<HeaderVersion(data)>>)
    ELSE IF ~MemEqual(data, DataChunkHeaderPrefix(b), 12)
    THEN Failure("InvalidCheckBytes", NoBytes, NoBytes)
    ELSE IF DigitsGreater(HeaderSizeField(b, data),
                          Digits(Len(data), WordSize(b)))
    THEN Failure("TooShortForChunk",
                 HeaderSizeField(b, data),
                 Digits(Len(data), WordSize(b)))
    ELSE Success

\* Variant of deserialize() whose check-bytes comparison covers 10 bytes
\* only.
deserialize_Prefix10(b, data) ==
    IF Len(data) < HeaderSize(b)
    THEN Failure("TooShortForHeader",
                 Digits(HeaderSize(b), WordSize(b)),
                 Digits(Len(data), WordSize(b)))
    ELSE IF HeaderVersion(data) # HeaderVersion(DataChunkHeaderPrefix(b))
    THEN Failure("VersionMismatch",
                 <<HeaderVersion(DataChunkHeaderPrefix(b))>>,
                 <<HeaderVersion(data)>>)
    ELSE IF HeaderSignature(data) # Current(b)
    THEN Failure("SignatureMismatch", Current(b), HeaderSignature(data))
    ELSE IF ~MemEqual(data, DataChunkHeaderPrefix(b), 10)
    THEN Failure("InvalidCheckBytes", NoBytes, NoBytes)
    ELSE IF DigitsGreater(HeaderSizeField(b, data),
                          Digits(Len(data), WordSize(b)))
    THEN Failure("TooShortForChunk",
                 HeaderSizeField(b, data),
                 Digits(Len(data), WordSize(b)))
    ELSE Success

\* Variant of deserialize() without the signature test of its own: a wrong
\* signature is left to the 12-byte comparison.
deserialize_NoSignatureCheck(b, data) ==
    IF Len(data) < HeaderSize(b)
    THEN Failure("TooShortForHeader",
                 Digits(HeaderSize(b), WordSize(b)),
                 Digits(Len(data), WordSize(b)))
    ELSE IF HeaderVersion(data) # HeaderVersion(DataChunkHeaderPrefix(b))
    THEN Failure("VersionMismatch",
                 <<HeaderVersion(DataChunkHeaderPrefix(b))>>,
                 <<HeaderVersion(data)>>)
    ELSE IF ~MemEqual(data, DataChunkHeaderPrefix(b), 12)
    THEN Failure("InvalidCheckBytes", NoBytes, NoBytes)
    ELSE IF DigitsGreater(HeaderSizeField(b, data),
                          Digits(Len(data), WordSize(b)))
    THEN Failure("TooShortForChunk",
                 HeaderSizeField(b, data),
                 Digits(Len(data), WordSize(b)))
    ELSE Success

\* Variant of deserialize() without the version test of its own: a wrong
\* version byte is left to the 12-byte comparison.
deserialize_NoVersionCheck(b, data) ==
    IF Len(data) < HeaderSize(b)
    THEN Failure("TooShortForHeader",
                 Digits(HeaderSize(b), WordSize(b)),
                 Digits(Len(data), WordSize(b)))
    ELSE IF HeaderSignature(data) # Current(b)
    THEN Failure("SignatureMismatch", Current(b), HeaderSignature(data))
    ELSE IF ~MemEqual(data, DataChunkHeaderPrefix(b), 12)
    THEN Failure("InvalidCheckBytes", NoBytes, NoBytes)
    ELSE IF DigitsGreater(HeaderSizeField(b, data),
                          Digits(Len(data), WordSize(b)))
    THEN Failure("TooShortForChunk",
                 HeaderSizeField(b, data),
                 Digits(Len(data), WordSize(b)))
    ELSE Success

\* Variant of deserialize() that accepts a header whatever size it declares.
deserialize_NoSizeCheck(b, data) ==
    IF Len(data) < HeaderSize(b)
    THEN Failure("TooShortForHeader",
                 Digits(HeaderSize(b), WordSize(b)),
                 Digits(Len(data), WordSize(b)))
    ELSE IF HeaderVersion(data) # HeaderVersion(DataChunkHeaderPrefix(b))
    THEN Failure("VersionMismatch",
                 <<HeaderVersion(DataChunkHeaderPrefix(b))>>,
                 <<HeaderVersion(data)>>)
    ELSE IF HeaderSignature(data) # Current(b)
    THEN Failure("SignatureMismatch", Current(b), HeaderSignature(data))
    ELSE IF ~MemEqual(data, DataChunkHeaderPrefix(b), 12)
    THEN Failure("InvalidCheckBytes", NoBytes, NoBytes)
    ELSE Success

\* Variant of deserialize() that looks at the version byte of a non-empty
\* buffer before it looks at the buffer's length.
deserialize_VersionFirst(b, data) ==
    IF Len(data) > 0
       /\ HeaderVersion(data) # HeaderVersion(DataChunkHeaderPrefix(b))
    THEN Failure("VersionMismatch",
                 <<HeaderVersion(DataChunkHeaderPrefix(b))>>,
                 <<HeaderVersion(data)>>)
    ELSE IF Len(data) < HeaderSize(b)
    THEN Failure("TooShortForHeader",
                 Digits(HeaderSize(b), WordSize(b)),
                 Digits(Len(data), WordSize(b)))
    ELSE IF HeaderSignature(data) # Current(b)
    THEN Failure("SignatureMismatch", Current(b), HeaderSignature(data))
    ELSE IF ~MemEqual(data, DataChunkHeaderPrefix(b), 12)
    THEN Failure("InvalidCheckBytes", NoBytes, NoBytes)
    ELSE IF DigitsGreater(HeaderSizeField(b, data),
                          Digits(Len(data), WordSize(b)))
    THEN Failure("TooShortForChunk",
                 HeaderSizeField(b, data),
                 Digits(Len(data), WordSize(b)))
    ELSE Success

\* Variant of deserialize() that accepts a chunk only when the buffer ends
\* where the chunk's declared size ends.
deserialize_ExactSize(b, data) ==
    IF Len(data) < HeaderSize(b)
    THEN Failure("TooShortForHeader",
                 Digits(HeaderSize(b), WordSize(b)),
                 Digits(Len(data), WordSize(b)))
    ELSE IF HeaderVersion(data) # HeaderVersion(DataChunkHeaderPrefix(b))
    THEN Failure("VersionMismatch",
                 <<HeaderVersion(DataChunkHeaderPrefix(b))>>,
                 <<HeaderVersion(data)>>)
    ELSE IF HeaderSignature(data) # Current(b)
    THEN Failure("SignatureMismatch", Current(b), HeaderSignature(data))
    ELSE IF ~MemEqual(data, DataChunkHeaderPrefix(b), 12)
    THEN Failure("InvalidCheckBytes", NoBytes, NoBytes)
    ELSE IF HeaderSizeField(b, data) # Digits(Len(data), WordSize(b))
    THEN Failure("TooShortForChunk",
                 HeaderSizeField(b, data),
                 Digits(Len(data), WordSize(b)))
    ELSE Success

\* Variant of deserialize() that reads the version from the byte that follows
\* the header when the view has one.
deserialize_PayloadVersion(b, data) ==
    LET version == IF Len(data) > HeaderSize(b)
                   THEN data[HeaderSize(b) + 1]
                   ELSE HeaderVersion(data)
    IN  IF Len(data) < HeaderSize(b)
        THEN Failure("TooShortForHeader",
                     Digits(HeaderSize(b), WordSize(b)),
                     Digits(Len(data), WordSize(b)))
        ELSE IF version # HeaderVersion(DataChunkHeaderPrefix(b))
        THEN Failure("VersionMismatch",
                     <<HeaderVersion(DataChunkHeaderPrefix(b))>>,
                     <<version>>)
        ELSE IF HeaderSignature(data) # Current(b)
        THEN Failure("SignatureMismatch", Current(b), HeaderSignature(data))
        ELSE IF ~MemEqual(data, DataChunkHeaderPrefix(b), 12)
        THEN Failure("InvalidCheckBytes", NoBytes, NoBytes)
        ELSE IF DigitsGreater(HeaderSizeField(b, data),
                              Digits(Len(data), WordSize(b)))
        THEN Failure("TooShortForChunk",
                     HeaderSizeField(b, data),
                     Digits(Len(data), WordSize(b)))
        ELSE Success

\* const DataChunk* DataChunk::deserialize(Containers::ArrayView<const void>)
\* The returned pointer is data.data() reinterpreted: ok means non-null.
\* Numbers of the messages are kept as digits, signatures as their 4 bytes.
deserialize(b, data) ==
    IF Len(data) < HeaderSize(b)
    THEN Failure("TooShortForHeader",
                 Digits(HeaderSize(b), WordSize(b)),
                 Digits(Len(data), WordSize(b)))
    ELSE IF HeaderVersion(data) # HeaderVersion(DataChunkHeaderPrefix(b))
    THEN Failure("VersionMismatch",
                 <<HeaderVersion(DataChunkHeaderPrefix(b))>>,
                 <<HeaderVersion(data)>>)
    ELSE IF HeaderSignature(data) # Current(b)
    THEN Failure("SignatureMismatch", Current(b), HeaderSignature(data))
    ELSE IF ~MemEqual(data, DataChunkHeaderPrefix(b), 12)
    THEN Failure("InvalidCheckBytes", NoBytes, NoBytes)
    ELSE IF DigitsGreater(HeaderSizeField(b, data),
                          Digits(Len(data), WordSize(b)))
    THEN Failure("TooShortForChunk",
                 HeaderSizeField(b, data),
                 Digits(Len(data), WordSize(b)))
    ELSE Success

\* Variant of the mutable deserialize() that validates with isDataChunk()
\* instead of the const overload.
deserializeMutable_Probe(b, data) ==
    IF isDataChunk(b, data)
    THEN Success
    ELSE Failure("InvalidCheckBytes", NoBytes, NoBytes)

\* DataChunk* DataChunk::deserialize(Containers::ArrayView<void> data):
\* const_cast<DataChunk*>(deserialize(Containers::ArrayView<const void>{data}))
deserializeMutable(b, data) == deserialize(b, data)

\* Variant of from() whose assertion prints a message of its own in place of
\* the one deserialize() printed.
from_OwnMessage(b, data) ==
    LET deserialized == deserialize(b, data)
    IN  IF deserialized.ptr # Null
        THEN deserialized
        ELSE [deserialized EXCEPT !.asserted = TRUE,
                                  !.err = "AssertionFailed",
                                  !.expected = NoBytes,
                                  !.actual = NoBytes]

\* const DataChunk& DataChunk::from(Containers::ArrayView<const void> data)
\* CORRADE_ASSERT(deserialized, Debug::nospace, *deserialized): the message
\* Debug::nospace prints nothing, so what was printed is deserialize()'s
\* message.  When the failed assertion returns at all (graceful assert), the
\* reference it returns is *deserialized of a null pointer.
from(b, data) ==
    LET deserialized == deserialize(b, data)
    IN  IF deserialized.ptr # Null
        THEN deserialized
        ELSE [deserialized EXCEPT !.asserted = TRUE]

\* DataChunk& DataChunk::from(Containers::ArrayView<void> data):
\* const_cast<DataChunk&>(from(Containers::ArrayView<const void>{data}))
fromMutable(b, data) == from(b, data)

\* The header bytes of the chunk a pointer into data designates.
ChunkAt(b, data, ptr) == SubSeq(data, ptr + 1, ptr + HeaderSize(b))

\* ------------------------------------------------------------ write path
\* Variant of serializeHeaderInto() whose size check forgets the size word.
serializeHeaderInto_NoSizeWord(b, self, out, extra) ==
    IF ~(Len(out) >= 16)
    THEN [ok |-> FALSE, err |-> "DataTooSmall",
          expected |-> Digits(HeaderSize(b), WordSize(b)),
          actual |-> Digits(Len(out), WordSize(b)),
          ptr |-> Null, asserted |-> TRUE,
          out |-> out, ret |-> 0]
    ELSE LET h1 == Overwrite(out, 0, DataChunkHeaderPrefix(b))
             h2 == Overwrite(h1, 16, Native(b, Len(out), WordSize(b)))
             h3 == Overwrite(h2, 12, HeaderType(self))
             h4 == Overwrite(h3, 10, Native(b, extra, 2))
         IN  [ok |-> TRUE, err |-> "none",
              expected |-> NoBytes, actual |-> NoBytes,
              ptr |-> Null, asserted |-> FALSE,
              out |-> h4, ret |-> HeaderSize(b)]

\* Variant of serializeHeaderInto() that stores the payload size only.
serializeHeaderInto_PayloadSize(b, self, out, extra) ==
    IF ~(Len(out) >= HeaderSize(b))
    THEN [ok |-> FALSE, err |-> "DataTooSmall",
          expected |-> Digits(HeaderSize(b), WordSize(b)),
          actual |-> Digits(Len(out), WordSize(b)),
          ptr |-> Null, asserted |-> TRUE,
          out |-> out, ret |-> 0]
    ELSE LET h1 == Overwrite(out, 0, DataChunkHeaderPrefix(b))
             h2 == Overwrite(h1, 16,
                             Native(b, Len(out) - HeaderSize(b), WordSize(b)))
             h3 == Overwrite(h2, 12, HeaderType(self))
             h4 == Overwrite(h3, 10, Native(b, extra, 2))
         IN  [ok |-> TRUE, err |-> "none",
              expected |-> NoBytes, actual |-> NoBytes,
              ptr |-> Null, asserted |-> FALSE,
              out |-> h4, ret |-> HeaderSize(b)]

\* Variant of serializeHeaderInto() that leaves out header.type = _header.type.
serializeHeaderInto_NoType(b, self, out, extra) ==
    IF ~(Len(out) >= HeaderSize(b))
    THEN [ok |-> FALSE, err |-> "DataTooSmall",
          expected |-> Digits(HeaderSize(b), WordSize(b)),
          actual |-> Digits(Len(out), WordSize(b)),
          ptr |-> Null, asserted |-> TRUE,
          out |-> out, ret |-> 0]
    ELSE LET h1 == Overwrite(out, 0, DataChunkHeaderPrefix(b))
             h2 == Overwrite(h1, 16, Native(b, Len(out), WordSize(b)))
             h4 == Overwrite(h2, 10, Native(b, extra, 2))
         IN  [ok |-> TRUE, err |-> "none",
              expected |-> NoBytes, actual |-> NoBytes,
              ptr |-> Null, asserted |-> FALSE,
              out |-> h4, ret |-> HeaderSize(b)]

\* Variant of serializeHeaderInto() that assigns the prefix without its
\* zero field, leaving bytes 8 and 9 of the destination as they were.
serializeHeaderInto_KeepsZero(b, self, out, extra) ==
    IF ~(Len(out) >= HeaderSize(b))
    THEN [ok |-> FALSE, err |-> "DataTooSmall",
          expected |-> Digits(HeaderSize(b), WordSize(b)),
          actual |-> Digits(Len(out), WordSize(b)),
          ptr |-> Null, asserted |-> TRUE,
          out |-> out, ret |-> 0]
    ELSE LET h1 == Overwrite(out, 0, SubSeq(DataChunkHeaderPrefix(b), 1, 8))
             h2 == Overwrite(h1, 16, Native(b, Len(out), WordSize(b)))
             h3 == Overwrite(h2, 12, HeaderType(self))
             h4 == Overwrite(h3, 10, Native(b, extra, 2))
         IN  [ok |-> TRUE, err |-> "none",
              expected |-> NoBytes, actual |-> NoBytes,
              ptr |-> Null, asserted |-> FALSE,
              out |-> h4, ret |-> HeaderSize(b)]

\* Variant of serializeHeaderInto() that stores extra in the zero field.
serializeHeaderInto_ExtraInZero(b, self, out, extra) ==
    IF ~(Len(out) >= HeaderSize(b))
    THEN [ok |-> FALSE, err |-> "DataTooSmall",
          expected |-> Digits(HeaderSize(b), WordSize(b)),
          actual |-> Digits(Len(out), WordSize(b)),
          ptr |-> Null, asserted |-> TRUE,
          out |-> out, ret |-> 0]
    ELSE LET h1 == Overwrite(out, 0, DataChunkHeaderPrefix(b))
             h2 == Overwrite(h1, 16, Native(b, Len(out), WordSize(b)))
             h3 == Overwrite(h2, 12, HeaderType(self))
             h4 == Overwrite(h3, 8, Native(b, extra, 2))
         IN  [ok |-> TRUE, err |-> "none",
              expected |-> NoBytes, actual |-> NoBytes,
              ptr |-> Null, asserted |-> FALSE,
              out |-> h4, ret |-> HeaderSize(b)]

\* Variant of serializeHeaderInto() that clears the whole destination before
\* it writes the header.
serializeHeaderInto_ClearsOut(b, self, out, extra) ==
    IF ~(Len(out) >= HeaderSize(b))
    THEN [ok |-> FALSE, err |-> "DataTooSmall",
          expected |-> Digits(HeaderSize(b), WordSize(b)),
          actual |-> Digits(Len(out), WordSize(b)),
          ptr |-> Null, asserted |-> TRUE,
          out |-> out, ret |-> 0]
    ELSE LET h1 == Overwrite(Zeros(Len(out)), 0, DataChunkHeaderPrefix(b))
             h2 == Overwrite(h1, 16, Native(b, Len(out), WordSize(b)))
             h3 == Overwrite(h2, 12, HeaderType(self))
             h4 == Overwrite(h3, 10, Native(b, extra, 2))
         IN  [ok |-> TRUE, err |-> "none",
              expected |-> NoBytes, actual |-> NoBytes,
              ptr |-> Null, asserted |-> FALSE,
              out |-> h4, ret |-> HeaderSize(b)]

\* Variant of serializeHeaderInto() that stores the size of the header alone
\* in header.size.
serializeHeaderInto_HeaderSizeOnly(b, self, out, extra) ==
    IF ~(Len(out) >= HeaderSize(b))
    THEN [ok |-> FALSE, err |-> "DataTooSmall",
          expected |-> Digits(HeaderSize(b), WordSize(b)),
          actual |-> Digits(Len(out), WordSize(b)),
          ptr |-> Null, asserted |-> TRUE,
          out |-> out, ret |-> 0]
    ELSE LET h1 == Overwrite(out, 0, DataChunkHeaderPrefix(b))
             h2 == Overwrite(h1, 16, Native(b, HeaderSize(b), WordSize(b)))
             h3 == Overwrite(h2, 12, HeaderType(self))
             h4 == Overwrite(h3, 10, Native(b, extra, 2))
         IN  [ok |-> TRUE, err |-> "none",
              expected |-> NoBytes, actual |-> NoBytes,
              ptr |-> Null, asserted |-> FALSE,
              out |-> h4, ret |-> HeaderSize(b)]

\* std::size_t DataChunk::serializeHeaderInto(Containers::ArrayView<char> out,
\*     UnsignedShort extra) const, called on the chunk at self, with out a
\* buffer distinct from the chunk.  out is the destination afterwards, ret
\* the returned value.  A failed CORRADE_ASSERT prints the message and, when
\* it returns at all (graceful assert, as in the tests), returns {}.
serializeHeaderInto(b, self, out, extra) ==
    IF ~(Len(out) >= HeaderSize(b))
    THEN [ok |-> FALSE, err |-> "DataTooSmall",
          expected |-> Digits(HeaderSize(b), WordSize(b)),
          actual |-> Digits(Len(out), WordSize(b)),
          ptr |-> Null, asserted |-> TRUE,
          out |-> out, ret |-> 0]
    ELSE LET h1 == Overwrite(out, 0, DataChunkHeaderPrefix(b))
             h2 == Overwrite(h1, 16, Native(b, Len(out), WordSize(b)))
             h3 == Overwrite(h2, 12, HeaderType(self))
             h4 == Overwrite(h3, 10, Native(b, extra, 2))
         IN  [ok |-> TRUE, err |-> "none",
              expected |-> NoBytes, actual |-> NoBytes,
              ptr |-> Null, asserted |-> FALSE,
              out |-> h4, ret |-> HeaderSize(b)]

\* serializeHeaderInto() called on a chunk that lives at the start of out
\* (a chunk obtained from deserialize() on that buffer): header and _header
\* are the same object, so header.type = _header.type reads the type that
\* header = DataChunkHeaderPrefix has just stored.
serializeHeaderIntoSelf(b, out, extra) ==
    IF ~(Len(out) >= HeaderSize(b))
    THEN [ok |-> FALSE, err |-> "DataTooSmall",
          expected |-> Digits(HeaderSize(b), WordSize(b)),
          actual |-> Digits(Len(out), WordSize(b)),
          ptr |-> Null, asserted |-> TRUE,
          out |-> out, ret |-> 0]
    ELSE LET h1 == Overwrite(out, 0, DataChunkHeaderPrefix(b))
             h2 == Overwrite(h1, 16, Native(b, Len(out), WordSize(b)))
             h3 == Overwrite(h2, 12, HeaderType(h2))
             h4 == Overwrite(h3, 10, Native(b, extra, 2))
         IN  [ok |-> TRUE, err |-> "none",
              expected |-> NoBytes, actual |-> NoBytes,
              ptr |-> Null, asserted |-> FALSE,
              out |-> h4, ret |-> HeaderSize(b)]

\* ------------------------------------------------------------ inputs
\* types of the live chunk: fourCC('F','F','s',42), fourCC('f','f','S',42)
TypeTags == {fourCC(70, 70, 115, 42), fourCC(102, 102, 83, 42)}

\* extra values: the default 0 and 0xfeed
Extras == {0, 65261}

\* sizes of the buffers callers allocate: empty, one byte short of a header
\* (char data[sizeof(DataChunkHeader) - 1]), a header and up to MaxPayload more
BufferSizes(b) ==
    {0, HeaderSize(b) - 1} \cup (HeaderSize(b)..(HeaderSize(b) + MaxPayload))

\* contents of a freshly allocated (NoInit) buffer
FillBytes == {0, 255}

\* constexpr char Data32[]: the signature bytes follow the byte order of the
\* build, the size bytes 24 + 5, 0, 0, 0 and the payload 'hello' do not.
Data32(b) ==
    <<128, 10, 13, 10>>
        \o (IF ~b.big THEN <<66, 108, 79, 66>> ELSE <<66, 79, 108, 66>>)
        \o <<0, 0, 0, 0>> \o <<70, 70, 115, 42>>
        \o <<24 + 5, 0, 0, 0>>
        \o <<104, 101, 108, 108, 111>>

\* constexpr char Data64[]
Data64(b) ==
    <<128, 10, 13, 10>>
        \o (IF ~b.big THEN <<66, 76, 79, 66>> ELSE <<66, 79, 76, 66>>)
        \o <<0, 0, 0, 0>> \o <<70, 70, 115, 42>>
        \o <<24 + 5, 0, 0, 0, 0, 0, 0, 0>>
        \o <<104, 101, 108, 108, 111>>

\* Data = sizeof(void*) == 4 ? arrayView(Data32) : arrayView(Data64)
Data(b) == IF WordSize(b) = 4 THEN Data32(b) ELSE Data64(b)

\* The chunk types and buffer contents that occur together: a chunk of type
\* ('F','F','s',42) beside a zeroed buffer, one of type ('f','f','S',42)
\* beside a buffer of 0xff bytes.
Inputs ==
    {<<fourCC(70, 70, 115, 42), 0>>, <<fourCC(102, 102, 83, 42), 255>>}

\* offsets a caller writes at: every byte of the version, EOL, signature, zero
\* and extra fields, the first byte of the type, both ends of the size word
\* and every payload byte
PokeOffsets(b, n) ==
    ((0..12) \cup {16, HeaderSize(b) - 1} \cup (HeaderSize(b)..(n - 1)))
        \cap (0..(n - 1))

\* bytes a caller writes into a buffer
PokeBytes == {1}

\* ------------------------------------------------------------ state
VARIABLES
    build,      \* the build variant (bitness, byte order)
    chunk,      \* memory of the live DataChunk (its _header)
    ctorType,   \* the type the live chunk was constructed with
    buf,        \* the byte buffer the caller holds
    edits,      \* caller edits of buf so far
    last        \* the last call and what it returned

vars == <<build, chunk, ctorType, buf, edits, last>>

Call(op, res, before, extra, ret) ==
    [op |-> op, ok |-> res.ok, err |-> res.err,
     expected |-> res.expected, actual |-> res.actual,
     ptr |-> res.ptr, asserted |-> res.asserted,
     before |-> before, extra |-> extra, ret |-> ret]

NoCall == Call("none", Success, NoBytes, 0, 0)

\* The live chunk is constructed and the caller holds a freshly allocated
\* buffer, Containers::Array<char> out{Containers::NoInit, size}, or a copy
\* of the test's Data beside a chunk of type ('F','F','s',42).
Init ==
    /\ build \in Builds
    /\ ctorType \in TypeTags
    /\ chunk = DataChunk(build, ctorType)
    /\ \/ \E n \in BufferSizes(build), f \in FillBytes :
            /\ <<ctorType, f>> \in Inputs
            /\ buf = [i \in 1..n |-> f]
       \/ /\ ctorType = fourCC(70, 70, 115, 42)
          /\ buf = Data(build)
    /\ edits = 0
    /\ last = NoCall

\* the caller overwrites one byte of the buffer
Poke ==
    /\ edits < MaxEdits
    /\ \E off \in PokeOffsets(build, Len(buf)), v \in PokeBytes :
        /\ buf[off + 1] # v
        /\ buf' = [buf EXCEPT ![off + 1] = v]
    /\ edits' = edits + 1
    /\ last' = NoCall
    /\ UNCHANGED <<build, chunk, ctorType>>

\* Containers::arrayView(Data).except(1): the view without its last byte
Except1 ==
    /\ edits < MaxEdits
    /\ Len(buf) > 0
    /\ buf' = SubSeq(buf, 1, Len(buf) - 1)
    /\ edits' = edits + 1
    /\ last' = NoCall
    /\ UNCHANGED <<build, chunk, ctorType>>

\* c.serializeHeaderInto(out, extra)
SerializeHeaderInto ==
    \E extra \in Extras :
        LET r == serializeHeaderInto(build, chunk, buf, extra)
        IN  /\ buf' = r.out
            /\ last' = Call("serializeHeaderInto", r, buf, extra, r.ret)
            /\ UNCHANGED <<build, chunk, ctorType, edits>>

\* DataChunk::deserialize(data)
Deserialize ==
    /\ last' = Call("deserialize", deserialize(build, buf), buf, 0, 0)
    /\ UNCHANGED <<build, chunk, ctorType, buf, edits>>

\* DataChunk::isDataChunk(data)
IsDataChunk ==
    /\ last' = Call("isDataChunk",
                    Answer(isDataChunk(build, buf)),
                    buf, 0, 0)
    /\ UNCHANGED <<build, chunk, ctorType, buf, edits>>

\* chunk.isDataChunkHeader() on the live chunk
IsDataChunkHeader ==
    /\ last' = Call("isDataChunkHeader",
                    Answer(isDataChunkHeader(build, chunk)),
                    chunk, 0, 0)
    /\ UNCHANGED <<build, chunk, ctorType, buf, edits>>

\* Variant of the mutable deserialize() that resets the extra field of the
\* header it is given.
DeserializeMutable_ClearsExtra ==
    /\ last' = Call("deserializeMutable", deserializeMutable(build, buf),
                    buf, 0, 0)
    /\ buf' = IF Len(buf) >= HeaderSize(build)
              THEN Overwrite(buf, 10, <<0, 0>>)
              ELSE buf
    /\ UNCHANGED <<build, chunk, ctorType, edits>>

\* DataChunk::deserialize(Containers::ArrayView<void>{data})
DeserializeMutable ==
    /\ last' = Call("deserializeMutable", deserializeMutable(build, buf),
                    buf, 0, 0)
    /\ UNCHANGED <<build, chunk, ctorType, buf, edits>>

\* DataChunk::from(data)
From ==
    /\ last' = Call("from", from(build, buf), buf, 0, 0)
    /\ UNCHANGED <<build, chunk, ctorType, buf, edits>>

\* DataChunk::from(Containers::ArrayView<void>{data})
FromMutable ==
    /\ last' = Call("fromMutable", fromMutable(build, buf), buf, 0, 0)
    /\ UNCHANGED <<build, chunk, ctorType, buf, edits>>

\* reinterpret_cast<const DataChunk*>(data.data())->isDataChunkHeader(), for
\* data.size() >= sizeof(DataChunkHeader)
ViewIsDataChunkHeader ==
    /\ Len(buf) >= HeaderSize(build)
    /\ last' = Call("viewIsDataChunkHeader",
                    Answer(isDataChunkHeader(build, ChunkAt(build, buf, 0))),
                    buf, 0, 0)
    /\ UNCHANGED <<build, chunk, ctorType, buf, edits>>

\* DataChunk& c = DataChunk::from(ArrayView<void>{data}) or
\* *DataChunk::deserialize(ArrayView<void>{data}), then
\* c.serializeHeaderInto(data, extra)
SerializeHeaderIntoSelf ==
    /\ edits < MaxEdits
    /\ last.op \in {"deserializeMutable", "fromMutable"}
    /\ last.ok
    /\ \E extra \in Extras :
        LET r == serializeHeaderIntoSelf(build, buf, extra)
        IN  /\ buf' = r.out
            /\ last' = Call("serializeHeaderIntoSelf", r, buf, extra, r.ret)
            /\ edits' = edits + 1
            /\ UNCHANGED <<build, chunk, ctorType>>

Next ==
    \/ Poke
    \/ Except1
    \/ SerializeHeaderInto
    \/ Deserialize
    \/ IsDataChunk
    \/ IsDataChunkHeader
    \/ DeserializeMutable
    \/ From
    \/ FromMutable
    \/ ViewIsDataChunkHeader
    \/ SerializeHeaderIntoSelf

Spec == Init /\ [][Next]_vars

\* ------------------------------------------------------------ debug output
\* tags printed: DataChunkType(fourCC('M','s','h','\xab')), DataChunkType{}
\* and the types of the model
DebugTags == TypeTags \cup {fourCC(77, 115, 104, 171), fourCC(0, 0, 0, 0)}

\* signatures printed: the four variants and DataChunkSignature{}
DebugSignatures ==
    {LittleEndian32, LittleEndian64, BigEndian32, BigEndian64,
     fourCC(0, 0, 0, 0)}

\* A chunk of one of the printed types is constructed; no buffer is held.
InitDebug ==
    /\ build \in Builds
    /\ ctorType \in DebugTags
    /\ chunk = DataChunk(build, ctorType)
    /\ buf = NoBytes
    /\ edits = 0
    /\ last = NoCall

\* what a Debug operator<< call leaves: the printed entries, for the bytes
\* of the value in memory
Printed(op, tag) ==
    [Call(op, Answer(TRUE), tag, 0, 0)
        EXCEPT !.actual = printFourCC(enumCastUnderlyingType(build, tag))]

\* Debug{&out} << chunk.dataChunkType()
DebugDataChunkType ==
    /\ last' = Printed("debugDataChunkType", dataChunkType(chunk))
    /\ UNCHANGED <<build, chunk, ctorType, buf, edits>>

\* Debug{&out} << signature
DebugDataChunkSignature ==
    /\ \E signature \in DebugSignatures :
           last' = Printed("debugDataChunkSignature", signature)
    /\ UNCHANGED <<build, chunk, ctorType, buf, edits>>

NextDebug ==
    \/ DebugDataChunkType
    \/ DebugDataChunkSignature

SpecDebug == InitDebug /\ [][NextDebug]_vars

\* ====================================================================
\* Properties
\* ====================================================================

\* The first 12 bytes of a valid header, written out per build.
ReferenceBytes(b) ==
    <<128, 10, 13, 10>>
        \o (IF b.bits = 32 /\ ~b.big THEN <<66, 108, 79, 66>>
            ELSE IF b.bits = 64 /\ ~b.big THEN <<66, 76, 79, 66>>
            ELSE IF b.bits = 32 /\ b.big THEN <<66, 79, 108, 66>>
            ELSE <<66, 79, 76, 66>>)
        \o <<0, 0, 0, 0>>

\* The byte of the size field with weight 256^k.
SizeByte(b, data, k) ==
    IF b.big THEN data[16 + (b.bits \div 8) - k] ELSE data[17 + k]

\* The size field holds a number below 65536, and its value then.
SizeIsSmall(b, data) ==
    \A k \in 2..((b.bits \div 8) - 1) : SizeByte(b, data, k) = 0

SmallSize(b, data) == SizeByte(b, data, 1) * 256 + SizeByte(b, data, 0)

\* declared size <= n, for n < 65536
DeclaredSizeAtMost(b, data, n) ==
    SizeIsSmall(b, data) /\ SmallSize(b, data) <= n

\* declared size >= n, for n < 65536
DeclaredSizeAtLeast(b, data, n) ==
    ~SizeIsSmall(b, data) \/ SmallSize(b, data) >= n

HS == 16 + (build.bits \div 8)

SerializeOk == last.op = "serializeHeaderInto" /\ last.ok

\* C1 (as claimed): after a successful serializeHeaderInto(out, E) on a chunk
\* of type T, with out of any length header_size + L, deserialize(out)
\* succeeds and yields type T, size header_size + L and the current
\* signature -- for every extra value E.
C1_RoundTrip ==
    SerializeOk =>
        /\ deserialize(build, buf).ok
        /\ dataChunkType(buf) = ctorType
        /\ DeclaredSizeAtMost(build, buf, Len(buf))
        /\ DeclaredSizeAtLeast(build, buf, Len(buf))
        /\ HeaderSignature(buf) = SubSeq(ReferenceBytes(build), 5, 8)

\* C2 (as claimed): isDataChunk(buffer) is true exactly when
\* deserialize(buffer) succeeds, for every buffer.
C2_ProbeAgreesWithDeserialize ==
    isDataChunk(build, buf) <=> deserialize(build, buf).ok

\* The five checks of deserialize, each on its own: check i fails.
CheckFails(b, data) ==
    LET long == Len(data) >= 16 + (b.bits \div 8)
    IN  <<~long,
          long /\ data[1] # 128,
          long /\ SubSeq(data, 5, 8) # SubSeq(ReferenceBytes(b), 5, 8),
          long /\ SubSeq(data, 1, 12) # ReferenceBytes(b),
          long /\ ~DeclaredSizeAtMost(b, data, Len(data))>>

CheckError ==
    <<"TooShortForHeader", "VersionMismatch", "SignatureMismatch",
      "InvalidCheckBytes", "TooShortForChunk">>

C4_IsDataChunk ==
    last.op = "isDataChunk" =>
        /\ last.ok <=>
              /\ Len(buf) >= HS
              /\ SubSeq(buf, 1, 10) = SubSeq(ReferenceBytes(build), 1, 10)
              /\ DeclaredSizeAtMost(build, buf, Len(buf))
        /\ \A i \in 11..16, v \in {0, 1, 237, 255} :
              i <= Len(buf) =>
                  isDataChunk(build, [buf EXCEPT ![i] = v]) = last.ok

\* C4 witness: isDataChunk returned true on a buffer whose extra field is
\* not zero.
C4_Witness ==
    /\ last.op = "isDataChunk"
    /\ last.ok
    /\ HeaderExtra(buf) # <<0, 0>>

NativeBytes(b, n, w) ==
    [i \in 1..w |->
        LET k == IF b.big THEN w - i ELSE i - 1
        IN  IF k = 0 THEN n % 256 ELSE IF k = 1 THEN n \div 256 ELSE 0]

\* The number n (n < 65536) as a message reports it: its digits in base 256,
\* most significant first, as wide as a word.
Number(n) ==
    NativeBytes([bits |-> build.bits, big |-> TRUE], n, build.bits \div 8)

\* C6: on a destination shorter than header_size (header_size - 1 and 0
\* included) serializeHeaderInto reports the data-too-small error with the
\* required header_size and the actual length, and leaves every byte of the
\* destination as it was.
C6_BufferTooSmall ==
    (last.op = "serializeHeaderInto" /\ Len(last.before) < HS) =>
        /\ ~last.ok
        /\ last.err = "DataTooSmall"
        /\ last.expected = Number(HS)
        /\ last.actual = Number(Len(last.before))
        /\ buf = last.before

\* C6 witness: the call failed on a destination of header_size - 1 bytes
\* that are not all zero.
C6_Witness ==
    /\ last.op = "serializeHeaderInto"
    /\ ~last.ok
    /\ Len(buf) = HS - 1
    /\ \E i \in 1..Len(buf) : buf[i] # 0

C8_SizeIncludesHeader ==
    (last.op \in {"deserialize", "isDataChunk"} /\ last.ok) =>
        /\ DeclaredSizeAtLeast(build, buf, HS)
        /\ DeclaredSizeAtMost(build, buf, Len(buf))

\* type tags: those of the model, DataChunkType{} and DataChunkType::Mesh
ProbedTypeTags == TypeTags \cup {<<0, 0, 0, 0>>, <<77, 115, 104, 0>>}

\* C9: a chunk freshly constructed with type T has every header field zero
\* except type = T; isDataChunkHeader() is false on it, and its header bytes
\* taken as a buffer are rejected by isDataChunk and by deserialize.
C9_LiveChunkInvalid ==
    last.op = "isDataChunkHeader" =>
        /\ ~last.ok
        /\ \A T \in ProbedTypeTags :
              LET c == DataChunk(build, T)
              IN  /\ Len(c) = HS
                  /\ \A i \in 1..HS :
                        c[i] = (IF i \in 13..16 THEN T[i - 12] ELSE 0)
                  /\ ~isDataChunkHeader(build, c)
                  /\ ~isDataChunk(build, c)
                  /\ ~deserialize(build, c).ok

\* C9 witness: isDataChunkHeader() was called on the live chunk of type
\* ('F','F','s',42).
C9_Witness ==
    /\ last.op = "isDataChunkHeader"
    /\ ~last.ok
    /\ last.before = chunk
    /\ SubSeq(chunk, 13, 16) = <<70, 70, 115, 42>>

\* C10: after any sequence of serializeHeaderInto calls into buffers distinct
\* from the chunk, dataChunkType() still returns the type T of construction,
\* the rest of the chunk's header is still zero, and every successful call
\* wrote T into the destination's type field.
C10_TypeFixedAtConstruction ==
    /\ dataChunkType(chunk) = ctorType
    /\ \A i \in 1..HS : i \notin 13..16 => chunk[i] = 0
    /\ SerializeOk => SubSeq(buf, 13, 16) = ctorType

\* C10 witness: a successful call into a destination that an earlier call
\* with another extra value had already stamped.
C10_Witness ==
    /\ SerializeOk
    /\ SubSeq(last.before, 1, 10) = SubSeq(ReferenceBytes(build), 1, 10)
    /\ SubSeq(last.before, 13, 16) = ctorType
    /\ SubSeq(last.before, 11, 12) # SubSeq(buf, 11, 12)

\* A header for the chunk's type written by build o into a copy of dest, with
\* room for the longest header.
ForeignHeader(o, type, dest, extra) ==
    serializeHeaderInto(o, DataChunk(o, type), dest \o <<0, 0, 0, 0>>,
                        extra).out

\* The size words a foreign header is presented with: as written, all zero,
\* all 0xff, and the size this build would have written.
SizeWords(b, h) ==
    {SubSeq(h, 17, 16 + (b.bits \div 8)),
     [i \in 1..(b.bits \div 8) |-> 0],
     [i \in 1..(b.bits \div 8) |-> 255],
     NativeBytes(b, Len(h), b.bits \div 8)}

\* C11: the current signature is the one of 'BlOB' (LE32), 'BLOB' (LE64),
\* 'BOlB' (BE32), 'BOLB' (BE64) selected by word size and byte order, the
\* four are pairwise distinct, and a header serialized under any of the
\* other three variants is accepted neither by isDataChunk nor by
\* deserialize on this build, whatever its size field contains.
C11_CrossBuildRejection ==
    SerializeOk =>
        /\ \A o \in Builds : Current(o) = SubSeq(ReferenceBytes(o), 5, 8)
        /\ Cardinality({Current(o) : o \in Builds}) = 4
        /\ SubSeq(buf, 5, 8) = SubSeq(ReferenceBytes(build), 5, 8)
        /\ \A o \in Builds \ {build} :
              LET h == ForeignHeader(o, ctorType, last.before, last.extra)
              IN  \A w \in SizeWords(build, h) :
                      LET c == SubSeq(h, 1, 16) \o w
                                   \o SubSeq(h, HS + 1, Len(h))
                      IN  /\ Len(c) = Len(h)
                          /\ ~isDataChunk(build, c)
                          /\ ~deserialize(build, c).ok

\* C11 witness: a successful call with extra 0 on a little-endian 64-bit
\* build, where the header a 32-bit build writes differs from this build's in
\* the signature alone once its size word is replaced.
C11_Witness ==
    /\ SerializeOk
    /\ last.extra = 0
    /\ build = [bits |-> 64, big |-> FALSE]
    /\ LET h == ForeignHeader([bits |-> 32, big |-> FALSE], ctorType,
                              last.before, 0)
       IN  /\ SubSeq(h, 1, 4) = SubSeq(buf, 1, 4)
           /\ SubSeq(h, 5, 8) = <<66, 108, 79, 66>>
           /\ SubSeq(buf, 5, 8) = <<66, 76, 79, 66>>
           /\ SubSeq(h, 9, 16) = SubSeq(buf, 9, 16)

\* Byte values written over a field to see whether an outcome depends on it.
ProbeBytes == {0, 1, 128, 255}

\* C12: on a buffer of length >= header_size with version byte 0x80 whose
\* signature field differs from the current signature, deserialize fails
\* with the signature error, reporting the current signature as expected and
\* the buffer's signature as actual, whatever the EOL bytes, zero guard,
\* extra, type and size bytes are.
C12_SignatureMismatch ==
    (/\ last.op = "deserialize"
     /\ Len(buf) >= HS
     /\ buf[1] = 128
     /\ SubSeq(buf, 5, 8) # SubSeq(ReferenceBytes(build), 5, 8)) =>
        /\ ~last.ok
        /\ last.err = "SignatureMismatch"
        /\ last.expected = SubSeq(ReferenceBytes(build), 5, 8)
        /\ last.actual = SubSeq(buf, 5, 8)
        /\ \A i \in (2..4) \cup (9..HS), v \in ProbeBytes :
              LET r == deserialize(build, [buf EXCEPT ![i] = v])
              IN  /\ ~r.ok
                  /\ r.err = last.err
                  /\ r.expected = last.expected
                  /\ r.actual = last.actual

\* C12 witness: deserialize reported the signature error on a buffer whose
\* EOL bytes, zero guard and size are those of a valid header.
C12_Witness ==
    /\ last.op = "deserialize"
    /\ last.err = "SignatureMismatch"
    /\ SubSeq(buf, 1, 4) = <<128, 10, 13, 10>>
    /\ SubSeq(buf, 9, 10) = <<0, 0>>
    /\ DeclaredSizeAtMost(build, buf, Len(buf))
    /\ last.actual # last.expected

\* C13: on a buffer of length >= header_size whose first byte is not 0x80,
\* deserialize fails with the version error, reporting 128 as expected and
\* the buffer's first byte as actual, whatever every other byte is, a wrong
\* signature included.
C13_VersionMismatch ==
    (/\ last.op = "deserialize"
     /\ Len(buf) >= HS
     /\ buf[1] # 128) =>
        /\ ~last.ok
        /\ last.err = "VersionMismatch"
        /\ last.expected = <<128>>
        /\ last.actual = <<buf[1]>>
        /\ \A i \in 2..HS, v \in ProbeBytes :
              LET r == deserialize(build, [buf EXCEPT ![i] = v])
              IN  /\ ~r.ok
                  /\ r.err = last.err
                  /\ r.expected = last.expected
                  /\ r.actual = last.actual

\* C13 witness: deserialize reported the version error on a serialized header
\* whose version byte alone was overwritten.
C13_Witness ==
    /\ last.op = "deserialize"
    /\ last.err = "VersionMismatch"
    /\ last.actual = <<1>>
    /\ SubSeq(buf, 2, 12) = SubSeq(ReferenceBytes(build), 2, 12)
    /\ DeclaredSizeAtMost(build, buf, Len(buf))

\* The size field of data as a message reports it: most significant byte
\* first.
DeclaredSize(b, data) ==
    [i \in 1..(b.bits \div 8) |-> SizeByte(b, data, (b.bits \div 8) - i)]

\* The buffer holds a valid 12-byte prefix and declares more bytes than it
\* has.
DeclaresTooMuch ==
    /\ Len(buf) >= HS
    /\ SubSeq(buf, 1, 12) = ReferenceBytes(build)
    /\ ~DeclaredSizeAtMost(build, buf, Len(buf))

\* C14: on a buffer of length >= header_size whose first 12 bytes equal the
\* reference header and whose declared size exceeds its length, deserialize
\* fails with the chunk-too-short error reporting the declared size and the
\* actual length, isDataChunk is false and isDataChunkHeader on the same
\* bytes is true.
C14_TooShortForChunk ==
    DeclaresTooMuch =>
        /\ last.op = "deserialize" =>
              /\ ~last.ok
              /\ last.err = "TooShortForChunk"
              /\ last.expected = DeclaredSize(build, buf)
              /\ last.actual = Number(Len(buf))
        /\ last.op = "isDataChunk" => ~last.ok
        /\ last.op = "viewIsDataChunkHeader" => last.ok
        /\ ~isDataChunk(build, buf)
        /\ isDataChunkHeader(build, ChunkAt(build, buf, 0))

\* C14 witness: deserialize rejected a serialized chunk whose view had lost
\* its last byte, so that it declares exactly one byte more than it has.
C14_Witness ==
    /\ DeclaresTooMuch
    /\ last.op = "deserialize"
    /\ last.err = "TooShortForChunk"
    /\ last.expected = Number(Len(buf) + 1)

\* A valid header of exactly header_size bytes for the chunk's type.
ValidHeader ==
    ReferenceBytes(build) \o ctorType
        \o NativeBytes(build, HS, build.bits \div 8)

\* C15: on a buffer shorter than header_size (the empty buffer and length
\* header_size - 1 included) deserialize fails with the header-too-short
\* error reporting header_size and the actual length, whatever the buffer
\* holds -- the leading bytes of a valid header included -- and isDataChunk
\* is false.
C15_TooShortForHeader ==
    (last.op \in {"deserialize", "isDataChunk"} /\ Len(buf) < HS) =>
        /\ last.op = "deserialize" =>
              /\ ~last.ok
              /\ last.err = "TooShortForHeader"
              /\ last.expected = Number(HS)
              /\ last.actual = Number(Len(buf))
        /\ last.op = "isDataChunk" => ~last.ok
        /\ \A i \in 1..Len(buf), v \in ProbeBytes :
              LET r == deserialize(build, [buf EXCEPT ![i] = v])
              IN  /\ r.err = "TooShortForHeader"
                  /\ r.expected = Number(HS)
                  /\ r.actual = Number(Len(buf))
                  /\ ~isDataChunk(build, [buf EXCEPT ![i] = v])
        /\ \A n \in {0, Len(buf), HS - 1} :
              LET r == deserialize(build, SubSeq(ValidHeader, 1, n))
              IN  /\ r.err = "TooShortForHeader"
                  /\ r.expected = Number(HS)
                  /\ r.actual = Number(n)
                  /\ ~isDataChunk(build, SubSeq(ValidHeader, 1, n))

\* C15 witness: deserialize rejected a view of header_size - 1 bytes that
\* holds a serialized header without its last byte.
C15_Witness ==
    /\ last.op = "deserialize"
    /\ last.err = "TooShortForHeader"
    /\ Len(buf) = HS - 1
    /\ buf = SubSeq(ValidHeader, 1, HS - 1)

\* C16: a successful serializeHeaderInto into a destination of length
\* n >= header_size leaves the destination's length and every byte at index
\* >= header_size as they were before the call.
C16_PayloadUntouched ==
    SerializeOk =>
        /\ Len(last.before) >= HS
        /\ Len(buf) = Len(last.before)
        /\ \A i \in (HS + 1)..Len(buf) : buf[i] = last.before[i]

\* C16 witness: a successful call into a destination with a payload byte the
\* caller had written, while the header bytes did change.
C16_Witness ==
    /\ SerializeOk
    /\ Len(buf) > HS
    /\ last.before[HS + 1] = 1
    /\ SubSeq(buf, 1, HS) # SubSeq(last.before, 1, HS)

\* The calls of the read path.
ReadOps ==
    {"isDataChunk", "isDataChunkHeader", "viewIsDataChunkHeader",
     "deserialize", "deserializeMutable", "from", "fromMutable"}

\* C17: isDataChunk, isDataChunkHeader, deserialize (const and mutable
\* overloads) and from leave every byte of the buffer -- and of the chunk --
\* unchanged, when they succeed and on every failure path.
C17_ReadPathNeverMutates ==
    [][last'.op \in ReadOps =>
          /\ buf' = buf
          /\ chunk' = chunk
          /\ last'.before \in {buf, chunk}]_vars

\* C17 witness: the mutable deserialize() has rejected a buffer that holds a
\* non-zero extra field, and the buffer is what it was given.
C17_Witness ==
    /\ last.op = "deserializeMutable"
    /\ last.err = "InvalidCheckBytes"
    /\ SubSeq(buf, 11, 12) # <<0, 0>>
    /\ buf = last.before

\* C18: on a buffer deserialize accepts, from returns the chunk view
\* deserialize returns; on a buffer deserialize rejects, from emits the
\* message deserialize emits and nothing more, then fails its assertion and
\* hands no valid chunk to the caller.
C18_FromVersusDeserialize ==
    last.op = "from" =>
        LET d == deserialize(build, buf)
            f == CheckFails(build, buf)
        IN  /\ d.ok =>
                  /\ last.ok
                  /\ last.ptr = d.ptr
                  /\ last.ptr = 0
                  /\ ~last.asserted
                  /\ last.err = "none"
            /\ ~d.ok =>
                  /\ ~last.ok
                  /\ last.asserted
                  /\ last.ptr = Null
                  /\ last.err = d.err
                  /\ last.expected = d.expected
                  /\ last.actual = d.actual
                  /\ \E i \in 1..5 : f[i] /\ last.err = CheckError[i]

\* C18 witness: from has failed its assertion on a buffer with a foreign
\* signature, after the signature message of deserialize.
C18_Witness ==
    /\ last.op = "from"
    /\ last.asserted
    /\ last.err = "SignatureMismatch"
    /\ last.actual = SubSeq(buf, 5, 8)
    /\ buf[1] = 128

\* The outcome of a call: accepted or not, the message and the location of
\* the returned view.
Outcome(r) == <<r.ok, r.err, r.expected, r.actual, r.ptr, r.asserted>>

\* C19: deserialize and from on a mutable view accept or reject exactly as
\* the const overloads do on the same bytes, report the same error, and on
\* success return a view of the buffer start.
C19_MutableOverloads ==
    /\ last.op = "deserializeMutable" =>
          /\ Outcome(last) = Outcome(deserialize(build, buf))
          /\ last.ok <=> ~(\E i \in 1..5 : CheckFails(build, buf)[i])
          /\ last.ok => last.ptr = 0
    /\ last.op = "fromMutable" =>
          /\ Outcome(last) = Outcome(from(build, buf))
          /\ last.ok <=> ~(\E i \in 1..5 : CheckFails(build, buf)[i])
          /\ last.ok => last.ptr = 0

\* C19 witness: the mutable deserialize() rejected a header with a non-zero
\* extra field, which the 10-byte probe accepts.
C19_Witness ==
    /\ last.op = "deserializeMutable"
    /\ ~last.ok
    /\ last.err = "InvalidCheckBytes"
    /\ isDataChunk(build, buf)

\* C20: whenever deserialize succeeds, the returned chunk is the buffer
\* itself at offset 0, its header is the buffer's first header_size bytes,
\* dataChunkType() is the 4-byte tag at buffer offset 12 -- also after the
\* caller rewrites that tag in the buffer -- and isDataChunkHeader() on the
\* returned chunk is true.
C20_AliasedView ==
    /\ (last.op = "deserialize" /\ last.ok) =>
          /\ last.ptr = 0
          /\ buf = last.before
          /\ ChunkAt(build, buf, last.ptr) = SubSeq(buf, 1, HS)
          /\ dataChunkType(ChunkAt(build, buf, last.ptr))
                 = <<buf[13], buf[14], buf[15], buf[16]>>
          /\ \A v \in ProbeBytes :
                dataChunkType(ChunkAt(build, [buf EXCEPT ![13] = v],
                                      last.ptr))
                    = <<v, buf[14], buf[15], buf[16]>>
          /\ isDataChunkHeader(build, ChunkAt(build, buf, last.ptr))
    /\ (last.op = "viewIsDataChunkHeader" /\ deserialize(build, buf).ok) =>
          last.ok

\* C20 witness: deserialize accepted a serialized chunk of type
\* ('f','f','S',42) with a payload byte.
C20_Witness ==
    /\ last.op = "deserialize"
    /\ last.ok
    /\ last.ptr = 0
    /\ Len(buf) > HS
    /\ dataChunkType(ChunkAt(build, buf, last.ptr)) = <<102, 102, 83, 42>>

\* C26 (as claimed): when deserialize on a mutable buffer has yielded chunk c
\* of type T, c.serializeHeaderInto on that same buffer, with any extra,
\* leaves the buffer's type field and c.dataChunkType() equal to T.
C26_InPlaceKeepsType ==
    (last.op = "serializeHeaderIntoSelf" /\ last.ok) =>
        /\ SubSeq(buf, 13, 16) = SubSeq(last.before, 13, 16)
        /\ dataChunkType(ChunkAt(build, buf, 0))
               = dataChunkType(ChunkAt(build, last.before, 0))

\* A chunk of type T serialized with extra 0 into a buffer of exactly n
\* bytes of 0xff.
SerializedChunk(b, T, n) ==
    serializeHeaderInto(b, DataChunk(b, T), [i \in 1..n |-> 255], 0).out

\* C21: for chunks A and B, each serialized with extra 0 into a buffer of
\* exactly its own size, deserialize of A followed by B succeeds and yields
\* A's type and size (the trailing bytes are accepted), and deserialize of
\* the suffix that starts at offset A.size succeeds and yields B's type and
\* size.
C21_Concatenation ==
    (SerializeOk /\ last.extra = 0) =>
        \A T \in {ctorType, <<77, 115, 104, 0>>},
           n \in {HS, HS + MaxPayload} :
            LET A == buf
                B == SerializedChunk(build, T, n)
                AB == A \o B
                suffix == SubSeq(AB, SmallSize(build, AB) + 1, Len(AB))
                deserialized == deserialize(build, AB)
            IN  /\ deserialized.ok
                /\ deserialized.ptr = 0
                /\ dataChunkType(ChunkAt(build, AB, 0)) = ctorType
                /\ SizeIsSmall(build, AB)
                /\ SmallSize(build, AB) = Len(A)
                /\ deserialize(build, suffix).ok
                /\ dataChunkType(ChunkAt(build, suffix, 0)) = T
                /\ SizeIsSmall(build, suffix)
                /\ SmallSize(build, suffix) = n
                /\ suffix = B

\* C21 witness: chunk A was serialized with a payload byte, and A followed by
\* a chunk B of another type is longer than A declares.
C21_Witness ==
    /\ SerializeOk
    /\ last.extra = 0
    /\ Len(buf) = HS + 1
    /\ LET AB == buf \o SerializedChunk(build, <<77, 115, 104, 0>>, HS)
       IN  /\ Len(AB) = (2 * HS) + 1
           /\ SmallSize(build, AB) = HS + 1
           /\ deserialize(build, AB).ok

\* A header for type ('F','F','s',42) has just been serialized with extra 0
\* in front of the 5-byte payload 'hello'.
HelloScenario ==
    /\ SerializeOk
    /\ last.extra = 0
    /\ ctorType = <<70, 70, 115, 42>>
    /\ Len(buf) = HS + 5
    /\ SubSeq(buf, HS + 1, HS + 5) = <<104, 101, 108, 108, 111>>

\* What the scenario yields apart from the buffer length: the size field is
\* header_size + 5, deserialize succeeds and recovers the type.
HelloOutcome ==
    /\ SizeIsSmall(build, buf)
    /\ SmallSize(build, buf) = HS + 5
    /\ deserialize(build, buf).ok
    /\ dataChunkType(ChunkAt(build, buf, deserialize(build, buf).ptr))
           = <<70, 70, 115, 42>>

\* C22 (as claimed): in the scenario the buffer has 29 bytes on a 32-bit
\* build and 33 bytes on a 64-bit build, its size field is header_size + 5
\* and deserializing it succeeds with type ('F','F','s',42).
C22_HelloScenarioAsClaimed ==
    HelloScenario =>
        /\ Len(buf) = (IF build.bits = 32 THEN 29 ELSE 33)
        /\ HelloOutcome

\* C22 (amended): in the scenario the buffer has 25 bytes on a 32-bit build
\* and 29 bytes on a 64-bit build (header 20 / 24 bytes plus 5), its size
\* field is header_size + 5 and deserializing it succeeds with type
\* ('F','F','s',42).
C22_HelloScenario ==
    HelloScenario =>
        /\ Len(buf) = (IF build.bits = 32 THEN 25 ELSE 29)
        /\ SmallSize(build, buf) = (IF build.bits = 32 THEN 25 ELSE 29)
        /\ HelloOutcome

\* C22 witness: the scenario on a 32-bit big-endian build.
C22_Witness ==
    /\ HelloScenario
    /\ build = [bits |-> 32, big |-> TRUE]
    /\ Len(buf) = 25

\* C23 (as claimed): the test buffer of the build's own bitness (Data32 on a
\* 32-bit build, Data64 on a 64-bit build), as the test defines it, is
\* accepted by deserialize, from and isDataChunk and yields type
\* ('F','F','s',42).
C23_ReferenceBuffersValid ==
    (/\ buf = (IF build.bits = 32 THEN Data32(build) ELSE Data64(build))
     /\ last.op \in {"deserialize", "from", "isDataChunk"}) =>
        /\ last.ok
        /\ ~last.asserted
        /\ last.op # "isDataChunk" =>
              /\ last.ptr = 0
              /\ dataChunkType(ChunkAt(build, buf, 0)) = <<70, 70, 115, 42>>

\* C24: serializedSize() is header_size = 16 + word size, 20 bytes on 32-bit
\* and 24 bytes on 64-bit builds, for the live chunk and for a chunk viewed in
\* a buffer; every successful serializeHeaderInto call returns this value,
\* and it is the least buffer length deserialize does not reject as too
\* short for a header.
C24_HeaderSize ==
    LET size == serializedSize(build)
    IN  /\ last.op \in {"serializeHeaderInto", "serializeHeaderIntoSelf",
                        "deserialize"} =>
              /\ size = (IF build.bits = 32 THEN 20 ELSE 24)
              /\ size = 16 + (IF build.bits = 32 THEN 4 ELSE 8)
              /\ Len(chunk) = size
        /\ (last.op \in {"serializeHeaderInto", "serializeHeaderIntoSelf"}
            /\ last.ok) =>
              /\ last.ret = size
              /\ Len(last.before) >= size
        /\ last.op = "deserialize" =>
              /\ (last.err = "TooShortForHeader") <=> (Len(buf) < size)
              /\ last.ok =>
                    Len(ChunkAt(build, buf, last.ptr)) = size
              /\ deserialize(build, SubSeq(ValidHeader, 1, size)).ok
              /\ deserialize(build, SubSeq(ValidHeader, 1, size - 1)).err
                     = "TooShortForHeader"

\* C24 witness: deserialize accepted a buffer of exactly 20 bytes on a
\* 32-bit build.
C24_Witness ==
    /\ last.op = "deserialize"
    /\ last.ok
    /\ build.bits = 32
    /\ Len(buf) = 20
    /\ serializedSize(build) = 20

\* The call printed the bytes a, b, c, d that Utility::Endianness::fourCC(a,
\* b, c, d) lays out in memory in this order.
DebugOp == last.op \in {"debugDataChunkType", "debugDataChunkSignature"}

\* A byte as the claim renders it.
Rendered(c) == IF c \in 32..126 THEN <<"char", c>> ELSE <<"hex", c>>

\* C25 (as claimed): the rendering lists the 4 bytes of the value from least
\* to most significant, a printable byte as a quoted character and any other
\* as a hexadecimal number, so that ('M','s','h',0xAB) renders
\* 'M', 's', 'h', 0xab and the zero value renders 0x0, 0x0, 0x0, 0x0.
C25_FourCCRendering ==
    DebugOp =>
        /\ \A i \in 1..4 :
              last.actual[i]
                  = Rendered(IF build.big THEN last.before[5 - i]
                             ELSE last.before[i])
        /\ last.before = <<77, 115, 104, 171>> =>
              last.actual = <<<<"char", 77>>, <<"char", 115>>,
                              <<"char", 104>>, <<"hex", 171>>>>
        /\ last.before = <<0, 0, 0, 0>> =>
              last.actual = <<<<"hex", 0>>, <<"hex", 0>>,
                              <<"hex", 0>>, <<"hex", 0>>>>

\* The header a call of serializeHeaderInto leaves in a destination.
HeaderWritten(T, out, extra) ==
    SubSeq(serializeHeaderInto(build, DataChunk(build, T), out, extra).out,
           1, HS)

\* A destination of n bytes of one value.
Filled(n, f) == [i \in 1..n |-> f]

\* C27: after a successful serializeHeaderInto the header_size leading bytes
\* of the destination depend on the chunk's type, extra and the destination's
\* length only, not on what the destination held before; a second call with
\* the same arguments changes nothing, and a later call with another type or
\* extra leaves the header it would have left without the earlier call.
C27_HeaderOverwritten ==
    SerializeOk =>
        /\ \A f \in FillBytes :
              SubSeq(buf, 1, HS)
                  = HeaderWritten(ctorType, Filled(Len(last.before), f),
                                  last.extra)
        /\ serializeHeaderInto(build, chunk, buf, last.extra).out = buf
        /\ \A T \in TypeTags, E \in Extras :
              HeaderWritten(T, buf, E) = HeaderWritten(T, last.before, E)

\* C27 witness: the destination already held a serialized header with another
\* extra, which the call replaced.
C27_Witness ==
    /\ SerializeOk
    /\ isDataChunk(build, last.before)
    /\ HeaderExtra(last.before) # HeaderExtra(buf)
    /\ last.extra = 0

\* The payloads of n bytes tried in place of the one a buffer carries.
Payloads(n) == [1..n -> FillBytes]

\* C28: two buffers of equal length that agree on their first header_size
\* bytes get the same outcome from deserialize (success or failure, error
\* kind, reported values) and the same answer from isDataChunk: no byte at
\* offset >= header_size influences validation.
C28_PayloadNonInterference ==
    (last.op \in {"deserialize", "isDataChunk"} /\ Len(buf) > HS) =>
        \A payload \in Payloads(Len(buf) - HS) :
            LET other == SubSeq(buf, 1, HS) \o payload
            IN  /\ Len(other) = Len(buf)
                /\ last.op = "deserialize" =>
                      Outcome(deserialize(build, other)) = Outcome(last)
                /\ last.op = "isDataChunk" =>
                      isDataChunk(build, other) = last.ok

\* C28 witness: a chunk whose payload byte the caller had written was
\* deserialized.
C28_Witness ==
    /\ last.op = "deserialize"
    /\ last.ok
    /\ Len(buf) > HS
    /\ buf[HS + 1] = 1

\* C29: for every buffer, deserialize succeeding implies isDataChunk is
\* true, and isDataChunk being true implies isDataChunkHeader() is true on
\* the buffer's leading bytes; isDataChunkHeader() is decided by the first
\* 10 bytes alone, whatever extra, type and size hold and however many bytes
\* follow.
C29_StrictnessChain ==
    last.op \in {"deserialize", "isDataChunk", "viewIsDataChunkHeader"} =>
        /\ deserialize(build, buf).ok => isDataChunk(build, buf)
        /\ isDataChunk(build, buf) =>
              isDataChunkHeader(build, ChunkAt(build, buf, 0))
        /\ last.op = "viewIsDataChunkHeader" =>
              /\ isDataChunkHeader(build, buf) = last.ok
              /\ \A E \in Extras, T \in ProbedTypeTags, f \in FillBytes :
                    isDataChunkHeader(build,
                        SubSeq(buf, 1, 10) \o Native(build, E, 2) \o T
                            \o Filled(WordSize(build), f)) = last.ok

\* C29 witness: deserialize succeeded on a buffer with a payload byte, on
\* which both probes are true.
C29_Witness ==
    /\ last.op = "deserialize"
    /\ last.ok
    /\ Len(buf) > HS
    /\ isDataChunk(build, buf)
    /\ isDataChunkHeader(build, ChunkAt(build, buf, 0))

\* C30: after every successful serializeHeaderInto -- whatever the length
\* n >= header_size of the destination, the type and the extra, zero or not
\* -- isDataChunk is true on the destination and isDataChunkHeader() is true
\* on its leading bytes.
C30_SerializedPassesProbe ==
    (/\ last.op \in {"serializeHeaderInto", "serializeHeaderIntoSelf"}
     /\ last.ok) =>
        /\ Len(buf) >= HS
        /\ isDataChunk(build, buf)
        /\ isDataChunkHeader(build, ChunkAt(build, buf, 0))

\* C30 witness: a header with a nonzero extra was serialized in front of a
\* payload byte.
C30_Witness ==
    /\ SerializeOk
    /\ last.extra = 65261
    /\ HeaderExtra(buf) # <<0, 0>>
    /\ Len(buf) > HS
    /\ isDataChunk(build, buf)
====
